---------------------------- MODULE Spec2Model ----------------------------
(***************************************************************************)
(* Persistence and membership layer of the chat server (src/lib/data.ts).  *)
(*                                                                         *)
(* The two SQL tables are the variables users and rooms.  Every exported   *)
(* async function is a call that runs in one of the slots of Procs; each   *)
(* await on the database (or on bcrypt / openpgp) is one step of the call, *)
(* so calls interleave exactly at the points where the event loop can      *)
(* switch between them.  A storage fault (a rejected query promise) is the *)
(* boolean input fault of the step that issues the query.                  *)
(***************************************************************************)
EXTENDS Integers, Sequences, FiniteSets, TLC

\* ------------------------------------------------------------------ bounds
\* Calls started in one behaviour.
MaxCalls == 5

\* Slots for the calls in flight: at most two calls overlap.
Procs == {1, 2}

Usernames == {"u1", "u2"}
\* Room names as callers pass them; "R1" differs from "r1" in letter case only.
RoomNames == {"r1", "R1", "r2"}
Passwords == {"pw1", "pw2"}
Colors == {"red", "blue"}
Salts == {"s1", "s2"}
\* Public keys clients supply for themselves.
UserKeys == {<<"userkey", "k1">>}

\* ------------------------------------------------------------ data helpers
\* A nullable SQL / JS value: <<>> is null, <<x>> is a value x.
Null == <<>>
Some(x) == <<x>>
Descriptions == {Null, Some("lobby")}

\* String.prototype.toLowerCase on the names of the model.
ToLowerCase(s) ==
    CASE s = "R1" -> "r1"
      [] s = "R2" -> "r2"
      [] OTHER -> s

LowerNames == {n \in RoomNames : ToLowerCase(n) = n}

\* A table cell that holds no row.
NoRow == [absent |-> TRUE]

\* JSON.stringify of an array / JSON.parse of the text it produced.
JsonStringify(arr) == <<"json", arr>>
JsonParse(text) == text[2]

\* A JS Set is a duplicate-free sequence in insertion order.
SetHas(s, x) == \E i \in 1..Len(s) : s[i] = x
\* Faulty variant of SetAdd: Array.prototype.push in place of Set.prototype.add.
SetAddPush(s, x) == Append(s, x)
SetAdd(s, x) == IF SetHas(s, x) THEN s ELSE Append(s, x)
SetDelete(s, x) == SelectSeq(s, LAMBDA y : y # x)
RECURSIVE NewSet(_)
NewSet(arr) ==
    IF arr = <<>> THEN <<>>
    ELSE SetAdd(NewSet(SubSeq(arr, 1, Len(arr) - 1)), arr[Len(arr)])
ArrayFrom(s) == s
Elements(s) == {s[i] : i \in 1..Len(s)}

\* bcrypt.hash(password, 10) with the salt the library drew.
BcryptCost == 10
BcryptHash(password, salt) == <<"bcrypt", BcryptCost, salt, <<password, salt>>>>
BcryptCompare(password, hash) == hash[4] = <<password, hash[3]>>

\* openpgp.generateKey({type: "rsa", rsaBits: 2048, userIDs: [{name}]}):
\* the k-th pair generated; every call yields a distinct pair.
RsaBits == 2048
GenerateKey(roomname, k) ==
    [publicKey |-> <<"pub", RsaBits, roomname, k>>,
     privateKey |-> <<"priv", RsaBits, roomname, k>>]
\* openpgp.readKey({binaryKey}).armor()
Armor(binaryKey) == <<"armored", binaryKey>>

\* ------------------------------------------------------------------- state
VARIABLES
    users,    \* table users: username -> row
    rooms,    \* table rooms: name -> row
    calls,    \* the call running in each slot
    last,     \* the call that completed most recently, with its result
    ncalls,   \* calls started so far
    nkeys     \* key pairs generated so far

vars == <<users, rooms, calls, last, ncalls, nkeys>>

IdleCall == [pc |-> "idle"]
NoCall == [op |-> "none"]

Idle(p) == calls[p].pc = "idle"
AllIdle == \A p \in Procs : Idle(p)

\* The schema of lines 22-48 creates both tables empty.
Init ==
    /\ users = [u \in Usernames |-> NoRow]
    /\ rooms = [n \in RoomNames |-> NoRow]
    /\ calls = [p \in Procs |-> IdleCall]
    /\ last = NoCall
    /\ ncalls = 0
    /\ nkeys = 0

\* A call of function op with arguments args begins in slot p.
NewCall(op, args) == [pc |-> "start", op |-> op, args |-> args, over |-> FALSE]

\* The call c of slot p settles with result res, after a fault of the step it
\* was at or without one: the slot is free again and every call still in flight
\* has seen another call complete.  again tells that the call completed before
\* it was the same call and returned true.
Return(p, c, res, fault) ==
    /\ calls' = [q \in Procs |->
                    IF q = p THEN IdleCall
                    ELSE IF Idle(q) THEN calls[q]
                    ELSE [calls[q] EXCEPT !.over = TRUE]]
    /\ last' = [op |-> c.op, args |-> c.args, res |-> res,
                fault |-> IF fault THEN c.pc ELSE "none",
                again |-> (last.op = c.op /\ last.args = c.args /\ last.res = "true")]

\* The call c of slot p settles with the value val (Null for null).  skipped
\* names the rooms a getUserViews call could not load.
ReturnValue(p, c, val, fault) ==
    /\ calls' = [q \in Procs |->
                    IF q = p THEN IdleCall
                    ELSE IF Idle(q) THEN calls[q]
                    ELSE [calls[q] EXCEPT !.over = TRUE]]
    /\ last' = [op |-> c.op, args |-> c.args,
                res |-> IF val = Null THEN "null" ELSE "value",
                val |-> val,
                fault |-> IF fault THEN c.pc ELSE "none",
                again |-> FALSE,
                skipped |-> IF c.pc = "views_getRoom" THEN c.skipped ELSE {}]

Goto(p, c) ==
    /\ calls' = [calls EXCEPT ![p] = c]
    /\ UNCHANGED last


\* ------------------------------------------------------------ table access
\* db(table).where(key).update({column: value}): rows that do not match are
\* left alone and the query still resolves.
UpdateWhere(table, key, column, value) ==
    [k \in DOMAIN table |->
        IF k = key /\ table[k] # NoRow
        THEN [table[k] EXCEPT ![column] = value]
        ELSE table[k]]

\* The updates a transaction has issued, applied to table `name` in order.
RECURSIVE ApplyWrites(_, _, _)
ApplyWrites(table, name, trx) ==
    IF trx = <<>> THEN table
    ELSE LET w == Head(trx)
             t == IF w.table = name
                  THEN UpdateWhere(table, w.key, w.column, w.value)
                  ELSE table
         IN ApplyWrites(t, name, Tail(trx))

\* getUserSession: null on a fault or when no row matches; otherwise the row
\* with online as a boolean and rooms as a Set.
GetUserSession(username, fault) ==
    IF fault \/ users[username] = NoRow THEN Null
    ELSE LET user == users[username]
         IN Some([username |-> user.username,
                  displayName |-> user.displayName,
                  password |-> user.password,
                  color |-> user.color,
                  online |-> (user.online # 0),
                  offline |-> ~(user.online # 0),
                  rooms |-> NewSet(JsonParse(user.rooms)),
                  publicKey |-> user.publicKey])

\* Faulty variant of GetRoom: the lookup without toLowerCase.
GetRoomCaseSensitive(roomname, fault) ==
    IF fault \/ rooms[roomname] = NoRow THEN Null
    ELSE LET room == rooms[roomname]
         IN Some([name |-> room.name,
                  description |-> room.description,
                  members |-> NewSet(JsonParse(room.members)),
                  publicKey |-> room.publicKey,
                  privateKey |-> room.privateKey,
                  armoredPublicKey |-> Armor(room.publicKey)])

\* getRoom: looks the lowercased name up; null on a fault or when no row
\* matches; otherwise the row with members as a Set and the armored key.
GetRoom(roomname, fault) ==
    IF fault \/ rooms[ToLowerCase(roomname)] = NoRow THEN Null
    ELSE LET room == rooms[ToLowerCase(roomname)]
         IN Some([name |-> room.name,
                  description |-> room.description,
                  members |-> NewSet(JsonParse(room.members)),
                  publicKey |-> room.publicKey,
                  privateKey |-> room.privateKey,
                  armoredPublicKey |-> Armor(room.publicKey)])

\* Faulty variant of ExistsRoom: a fault counts as "does not exist".
ExistsRoomFailOpen(roomname, fault) ==
    IF fault THEN FALSE ELSE rooms[ToLowerCase(roomname)] # NoRow

\* Faulty variant of ExistsRoom: the lookup without toLowerCase.
ExistsRoomCaseSensitive(roomname, fault) ==
    IF fault THEN TRUE ELSE rooms[roomname] # NoRow

\* existsRoom: a fault counts as "exists".
ExistsRoom(roomname, fault) ==
    IF fault THEN TRUE ELSE rooms[ToLowerCase(roomname)] # NoRow

\* ------------------------------------------------------- createUserProfile
\* Faulty variant of CreateUserLookup: the check "if (user) return false" is missing.
CreateUserLookupNoCheck(p, username, password, color, fault) ==
    LET c == NewCall("createUserProfile",
                     [username |-> username, password |-> password, color |-> color])
    IN /\ Idle(p)
       /\ ncalls' = ncalls + 1
       /\ IF fault THEN Return(p, c, "null", TRUE)
          ELSE Goto(p, [c EXCEPT !.pc = "cu_insert"])
       /\ UNCHANGED <<users, rooms, nkeys>>

\* Lines 71-76: the lookup of the username.
CreateUserLookup(p, username, password, color, fault) ==
    LET c == NewCall("createUserProfile",
                     [username |-> username, password |-> password, color |-> color])
    IN /\ Idle(p)
       /\ ncalls' = ncalls + 1
       /\ IF fault THEN Return(p, c, "null", TRUE)
          ELSE IF users[username] # NoRow THEN Return(p, c, "false", FALSE)
          ELSE Goto(p, [c EXCEPT !.pc = "cu_insert"])
       /\ UNCHANGED <<users, rooms, nkeys>>

\* Faulty variant of CreateUserInsert: the insert overwrites a row of that
\* username (an upsert) instead of being rejected.
CreateUserInsertUpsert(p, salt, fault) ==
    LET c == calls[p]
        a == c.args
    IN /\ c.pc = "cu_insert"
       /\ IF fault
          THEN /\ Return(p, c, "null", TRUE)
               /\ UNCHANGED users
          ELSE /\ users' = [users EXCEPT ![a.username] =
                               [username |-> a.username,
                                displayName |-> Null,
                                password |-> BcryptHash(a.password, salt),
                                color |-> a.color,
                                rooms |-> JsonStringify(<<>>),
                                online |-> 0,
                                publicKey |-> Null]]
               /\ Return(p, c, "true", FALSE)
       /\ UNCHANGED <<rooms, ncalls, nkeys>>

\* Lines 78-85: hash the password and insert the row; the columns the insert
\* does not name take the defaults of the schema (lines 27-33).  username is
\* the primary key, so the insert is rejected when the row exists by now.
CreateUserInsert(p, salt, fault) ==
    LET c == calls[p]
        a == c.args
    IN /\ c.pc = "cu_insert"
       /\ IF fault \/ users[a.username] # NoRow
          THEN /\ Return(p, c, "null", fault)
               /\ UNCHANGED users
          ELSE /\ users' = [users EXCEPT ![a.username] =
                               [username |-> a.username,
                                displayName |-> Null,
                                password |-> BcryptHash(a.password, salt),
                                color |-> a.color,
                                rooms |-> JsonStringify(<<>>),
                                online |-> 0,
                                publicKey |-> Null]]
               /\ Return(p, c, "true", FALSE)
       /\ UNCHANGED <<rooms, ncalls, nkeys>>

\* -------------------------------------------------------------- createRoom
\* Line 210: the existence check.
CreateRoomExists(p, roomname, description, fault) ==
    LET c == NewCall("createRoom",
                     [roomname |-> roomname, description |-> description])
    IN /\ Idle(p)
       /\ ncalls' = ncalls + 1
       /\ IF ExistsRoom(roomname, fault)
          THEN Return(p, c, "false", fault)
          ELSE Goto(p, [c EXCEPT !.pc = "cr_keygen"])
       /\ UNCHANGED <<users, rooms, nkeys>>

\* Lines 212-221: key generation; its rejection is not caught.
CreateRoomGenerateKey(p, fault) ==
    LET c == calls[p]
    IN /\ c.pc = "cr_keygen"
       /\ IF fault
          THEN /\ Return(p, c, "throw", TRUE)
               /\ UNCHANGED nkeys
          ELSE /\ nkeys' = nkeys + 1
               /\ Goto(p, [pc |-> "cr_insert", op |-> c.op, args |-> c.args,
                           over |-> c.over,
                           keys |-> GenerateKey(c.args.roomname, nkeys + 1)])
       /\ UNCHANGED <<users, rooms, ncalls>>

\* Faulty variant of CreateRoomInsert: the merge also writes the empty members.
CreateRoomInsertReplace(p, fault) ==
    LET c == calls[p]
        name == ToLowerCase(c.args.roomname)
    IN /\ c.pc = "cr_insert"
       /\ IF fault
          THEN /\ Return(p, c, "false", TRUE)
               /\ UNCHANGED rooms
          ELSE /\ rooms' = [rooms EXCEPT ![name] =
                               [name |-> name,
                                description |-> c.args.description,
                                members |-> JsonStringify(<<>>),
                                publicKey |-> c.keys.publicKey,
                                privateKey |-> c.keys.privateKey]]
               /\ Return(p, c, "true", FALSE)
       /\ UNCHANGED <<users, ncalls, nkeys>>

\* Lines 223-233: insert ... onConflict("name").merge(): a row of that name is
\* overwritten in the inserted columns, its other columns are kept.
CreateRoomInsert(p, fault) ==
    LET c == calls[p]
        name == ToLowerCase(c.args.roomname)
    IN /\ c.pc = "cr_insert"
       /\ IF fault
          THEN /\ Return(p, c, "false", TRUE)
               /\ UNCHANGED rooms
          ELSE /\ rooms' = [rooms EXCEPT ![name] =
                               IF rooms[name] = NoRow
                               THEN [name |-> name,
                                     description |-> c.args.description,
                                     members |-> JsonStringify(<<>>),
                                     publicKey |-> c.keys.publicKey,
                                     privateKey |-> c.keys.privateKey]
                               ELSE [rooms[name] EXCEPT
                                        !.name = name,
                                        !.description = c.args.description,
                                        !.publicKey = c.keys.publicKey,
                                        !.privateKey = c.keys.privateKey]]
               /\ Return(p, c, "true", FALSE)
       /\ UNCHANGED <<users, ncalls, nkeys>>

\* ------------------------------------------------------------ addUserToRoom
\* Lines 124-125: the read of the user.
AddGetUser(p, username, roomname, fault) ==
    LET c == NewCall("addUserToRoom", [username |-> username, roomname |-> roomname])
        user == GetUserSession(username, fault)
    IN /\ Idle(p)
       /\ ncalls' = ncalls + 1
       /\ IF user = Null
          THEN Return(p, c, "false", fault)
          ELSE Goto(p, [pc |-> "Add_getRoom", op |-> c.op, args |-> c.args,
                        over |-> c.over,
                        user |-> user[1]])
       /\ UNCHANGED <<users, rooms, nkeys>>

\* Faulty variant of AddGetRoom: the check "if (room === null) return false" is
\* missing, so the add on a null room throws.
AddGetRoomNoCheck(p, fault) ==
    LET c == calls[p]
        a == c.args
        room == GetRoom(a.roomname, fault)
    IN /\ c.pc = "Add_getRoom"
       /\ IF room = Null
          THEN Return(p, c, "throw", fault)
          ELSE Goto(p, [pc |-> "Add_trxUsers", op |-> c.op, args |-> c.args,
                        over |-> c.over,
                        user |-> [c.user EXCEPT !.rooms = SetAdd(@, a.roomname)],
                        room |-> [room[1] EXCEPT !.members = SetAdd(@, a.username)],
                        trx |-> <<>>])
       /\ UNCHANGED <<users, rooms, ncalls, nkeys>>

\* Lines 127-131: the read of the room, then the add on both Sets, with the
\* room name as the caller passed it.
AddGetRoom(p, fault) ==
    LET c == calls[p]
        a == c.args
        room == GetRoom(a.roomname, fault)
    IN /\ c.pc = "Add_getRoom"
       /\ IF room = Null
          THEN Return(p, c, "false", fault)
          ELSE Goto(p, [pc |-> "Add_trxUsers", op |-> c.op, args |-> c.args,
                        over |-> c.over,
                        user |-> [c.user EXCEPT !.rooms = SetAdd(@, a.roomname)],
                        room |-> [room[1] EXCEPT !.members = SetAdd(@, a.username)],
                        trx |-> <<>>])
       /\ UNCHANGED <<users, rooms, ncalls, nkeys>>

\* Faulty variant of AddTrxUsers: the update runs on db instead of trx, so it is in the
\* table at once and no rollback undoes it.
AddTrxUsersAutocommit(p, fault) ==
    LET c == calls[p]
        a == c.args
    IN /\ c.pc = "Add_trxUsers"
       /\ IF fault
          THEN /\ Return(p, c, "false", TRUE)
               /\ UNCHANGED users
          ELSE /\ users' = UpdateWhere(users, a.username, "rooms",
                                       JsonStringify(ArrayFrom(c.user.rooms)))
               /\ Goto(p, [c EXCEPT !.pc = "Add_trxRooms"])
       /\ UNCHANGED <<rooms, ncalls, nkeys>>

\* Faulty variant of AddTrxUsers: the update writes the online flag the call
\* read along with the rooms.
AddTrxUsersStale(p, fault) ==
    LET c == calls[p]
        a == c.args
    IN /\ c.pc = "Add_trxUsers"
       /\ IF fault
          THEN Return(p, c, "false", TRUE)
          ELSE Goto(p, [c EXCEPT
                  !.pc = "Add_trxRooms",
                  !.trx = Append(Append(@,
                                    [table |-> "users", key |-> a.username,
                                     column |-> "rooms",
                                     value |-> JsonStringify(ArrayFrom(c.user.rooms))]),
                                 [table |-> "users", key |-> a.username,
                                  column |-> "online",
                                  value |-> IF c.user.online THEN 1 ELSE 0])])
       /\ UNCHANGED <<users, rooms, ncalls, nkeys>>

\* Lines 136-140: the first update of the transaction, on the user's row.  An
\* update inside the transaction is not in the tables before the commit; a
\* rejection rolls the transaction back.
AddTrxUsers(p, fault) ==
    LET c == calls[p]
        a == c.args
    IN /\ c.pc = "Add_trxUsers"
       /\ IF fault
          THEN Return(p, c, "false", TRUE)
          ELSE Goto(p, [c EXCEPT
                  !.pc = "Add_trxRooms",
                  !.trx = Append(@, [table |-> "users", key |-> a.username,
                                     column |-> "rooms",
                                     value |-> JsonStringify(ArrayFrom(c.user.rooms))])])
       /\ UNCHANGED <<users, rooms, ncalls, nkeys>>

\* Faulty variant of AddTrxRooms: the update of the room's row is missing.
AddTrxRoomsSkipped(p, fault) ==
    LET c == calls[p]
    IN /\ c.pc = "Add_trxRooms"
       /\ IF fault
          THEN Return(p, c, "false", TRUE)
          ELSE Goto(p, [c EXCEPT !.pc = "Add_commit"])
       /\ UNCHANGED <<users, rooms, ncalls, nkeys>>

\* Lines 142-146: the second update, on the row whose name equals the room name
\* as the caller passed it.
AddTrxRooms(p, fault) ==
    LET c == calls[p]
        a == c.args
    IN /\ c.pc = "Add_trxRooms"
       /\ IF fault
          THEN Return(p, c, "false", TRUE)
          ELSE Goto(p, [c EXCEPT
                  !.pc = "Add_commit",
                  !.trx = Append(@, [table |-> "rooms", key |-> a.roomname,
                                     column |-> "members",
                                     value |-> JsonStringify(ArrayFrom(c.room.members))])])
       /\ UNCHANGED <<users, rooms, ncalls, nkeys>>

\* Lines 133-149: the handler resolved, the transaction commits both updates
\* at once, or fails to and changes nothing.
AddCommit(p, fault) ==
    LET c == calls[p]
    IN /\ c.pc = "Add_commit"
       /\ IF fault
          THEN /\ Return(p, c, "false", TRUE)
               /\ UNCHANGED <<users, rooms>>
          ELSE /\ users' = ApplyWrites(users, "users", c.trx)
               /\ rooms' = ApplyWrites(rooms, "rooms", c.trx)
               /\ Return(p, c, "true", FALSE)
       /\ UNCHANGED <<ncalls, nkeys>>

\* ------------------------------------------------------------ removeUserFromRoom
\* Lines 152-153: the read of the user.
RemoveGetUser(p, username, roomname, fault) ==
    LET c == NewCall("removeUserFromRoom", [username |-> username, roomname |-> roomname])
        user == GetUserSession(username, fault)
    IN /\ Idle(p)
       /\ ncalls' = ncalls + 1
       /\ IF user = Null
          THEN Return(p, c, "false", fault)
          ELSE Goto(p, [pc |-> "Remove_getRoom", op |-> c.op, args |-> c.args,
                        over |-> c.over,
                        user |-> user[1]])
       /\ UNCHANGED <<users, rooms, nkeys>>

\* Lines 155-159: the read of the room, then the delete on both Sets, with the
\* room name as the caller passed it.
RemoveGetRoom(p, fault) ==
    LET c == calls[p]
        a == c.args
        room == GetRoom(a.roomname, fault)
    IN /\ c.pc = "Remove_getRoom"
       /\ IF room = Null
          THEN Return(p, c, "false", fault)
          ELSE Goto(p, [pc |-> "Remove_trxUsers", op |-> c.op, args |-> c.args,
                        over |-> c.over,
                        user |-> [c.user EXCEPT !.rooms = SetDelete(@, a.roomname)],
                        room |-> [room[1] EXCEPT !.members = SetDelete(@, a.username)],
                        trx |-> <<>>])
       /\ UNCHANGED <<users, rooms, ncalls, nkeys>>

\* Lines 164-168: the first update of the transaction, on the user's row.  An
\* update inside the transaction is not in the tables before the commit; a
\* rejection rolls the transaction back.
RemoveTrxUsers(p, fault) ==
    LET c == calls[p]
        a == c.args
    IN /\ c.pc = "Remove_trxUsers"
       /\ IF fault
          THEN Return(p, c, "false", TRUE)
          ELSE Goto(p, [c EXCEPT
                  !.pc = "Remove_trxRooms",
                  !.trx = Append(@, [table |-> "users", key |-> a.username,
                                     column |-> "rooms",
                                     value |-> JsonStringify(ArrayFrom(c.user.rooms))])])
       /\ UNCHANGED <<users, rooms, ncalls, nkeys>>

\* Lines 170-174: the second update, on the row whose name equals the room name
\* as the caller passed it.
RemoveTrxRooms(p, fault) ==
    LET c == calls[p]
        a == c.args
    IN /\ c.pc = "Remove_trxRooms"
       /\ IF fault
          THEN Return(p, c, "false", TRUE)
          ELSE Goto(p, [c EXCEPT
                  !.pc = "Remove_commit",
                  !.trx = Append(@, [table |-> "rooms", key |-> a.roomname,
                                     column |-> "members",
                                     value |-> JsonStringify(ArrayFrom(c.room.members))])])
       /\ UNCHANGED <<users, rooms, ncalls, nkeys>>

\* Lines 161-177: the handler resolved, the transaction commits both updates
\* at once, or fails to and changes nothing.
RemoveCommit(p, fault) ==
    LET c == calls[p]
    IN /\ c.pc = "Remove_commit"
       /\ IF fault
          THEN /\ Return(p, c, "false", TRUE)
               /\ UNCHANGED <<users, rooms>>
          ELSE /\ users' = ApplyWrites(users, "users", c.trx)
               /\ rooms' = ApplyWrites(rooms, "rooms", c.trx)
               /\ Return(p, c, "true", FALSE)
       /\ UNCHANGED <<ncalls, nkeys>>

\* ------------------------------------------- reads and single-row updates
\* getUserSession as callers invoke it.
GetUserSessionCall(p, username, fault) ==
    LET c == NewCall("getUserSession", [username |-> username])
    IN /\ Idle(p)
       /\ ncalls' = ncalls + 1
       /\ ReturnValue(p, c, GetUserSession(username, fault), fault)
       /\ UNCHANGED <<users, rooms, nkeys>>

\* Faulty variant of CompareUserProfile: the catch answers true.
CompareUserProfileFailOpen(p, username, password, fault) ==
    LET c == NewCall("compareUserProfile",
                     [username |-> username, password |-> password])
    IN /\ Idle(p)
       /\ ncalls' = ncalls + 1
       /\ IF fault THEN Return(p, c, "true", TRUE)
          ELSE IF users[username] = NoRow THEN Return(p, c, "false", FALSE)
          ELSE Return(p, c,
                      IF BcryptCompare(password, users[username].password)
                      THEN "true" ELSE "false", FALSE)
       /\ UNCHANGED <<users, rooms, nkeys>>

\* compareUserProfile: false on a fault or when no row matches, otherwise what
\* bcrypt.compare says of the password and the row's hash, which the lookup
\* has read.
CompareUserProfile(p, username, password, fault) ==
    LET c == NewCall("compareUserProfile",
                     [username |-> username, password |-> password])
    IN /\ Idle(p)
       /\ ncalls' = ncalls + 1
       /\ IF fault THEN Return(p, c, "false", TRUE)
          ELSE IF users[username] = NoRow THEN Return(p, c, "false", FALSE)
          ELSE Return(p, c,
                      IF BcryptCompare(password, users[username].password)
                      THEN "true" ELSE "false", FALSE)
       /\ UNCHANGED <<users, rooms, nkeys>>

\* updateUserProfile: writes username and color of the matching row; true
\* also when no row matches.
UpdateUserProfile(p, username, color, fault) ==
    LET c == NewCall("updateUserProfile", [username |-> username, color |-> color])
    IN /\ Idle(p)
       /\ ncalls' = ncalls + 1
       /\ IF fault
          THEN /\ Return(p, c, "false", TRUE)
               /\ UNCHANGED users
          ELSE /\ users' = UpdateWhere(UpdateWhere(users, username, "username", username),
                                       username, "color", color)
               /\ Return(p, c, "true", FALSE)
       /\ UNCHANGED <<rooms, nkeys>>

\* setUserStatus: writes online of the matching row (SQLite keeps a boolean
\* as 0 or 1).
SetUserStatus(p, username, online, fault) ==
    LET c == NewCall("setUserStatus", [username |-> username, online |-> online])
    IN /\ Idle(p)
       /\ ncalls' = ncalls + 1
       /\ IF fault
          THEN /\ Return(p, c, "false", TRUE)
               /\ UNCHANGED users
          ELSE /\ users' = UpdateWhere(users, username, "online",
                                       IF online THEN 1 ELSE 0)
               /\ Return(p, c, "true", FALSE)
       /\ UNCHANGED <<rooms, nkeys>>

\* setUserPublicKey: writes publicKey of the matching row.
SetUserPublicKey(p, username, publicKey, fault) ==
    LET c == NewCall("setUserPublicKey",
                     [username |-> username, publicKey |-> publicKey])
    IN /\ Idle(p)
       /\ ncalls' = ncalls + 1
       /\ IF fault
          THEN /\ Return(p, c, "false", TRUE)
               /\ UNCHANGED users
          ELSE /\ users' = UpdateWhere(users, username, "publicKey", publicKey)
               /\ Return(p, c, "true", FALSE)
       /\ UNCHANGED <<rooms, nkeys>>

\* getUserPublicKey: null on a fault, when no row matches or when the row has
\* no key.
GetUserPublicKey(p, username, fault) ==
    LET c == NewCall("getUserPublicKey", [username |-> username])
    IN /\ Idle(p)
       /\ ncalls' = ncalls + 1
       /\ ReturnValue(p, c,
                      IF fault \/ users[username] = NoRow THEN Null
                      ELSE IF users[username].publicKey = Null THEN Null
                      ELSE Some(users[username].publicKey),
                      fault)
       /\ UNCHANGED <<users, rooms, nkeys>>

\* existsRoom as callers invoke it.
ExistsRoomCall(p, roomname, fault) ==
    LET c == NewCall("existsRoom", [roomname |-> roomname])
    IN /\ Idle(p)
       /\ ncalls' = ncalls + 1
       /\ Return(p, c, IF ExistsRoom(roomname, fault) THEN "true" ELSE "false", fault)
       /\ UNCHANGED <<users, rooms, nkeys>>

\* getRoom as callers invoke it.
GetRoomCall(p, roomname, fault) ==
    LET c == NewCall("getRoom", [roomname |-> roomname])
    IN /\ Idle(p)
       /\ ncalls' = ncalls + 1
       /\ ReturnValue(p, c, GetRoom(roomname, fault), fault)
       /\ UNCHANGED <<users, rooms, nkeys>>

\* ------------------------------------------------------------ getUserViews
\* All members of a Set added to another, in iteration order.
RECURSIVE SetAddAll(_, _)
SetAddAll(s, xs) ==
    IF xs = <<>> THEN s ELSE SetAddAll(SetAdd(s, Head(xs)), Tail(xs))

\* Lines 183-186: the read of the user; with no rooms to visit the loop is
\* skipped and the empty Set returned.
ViewsGetUser(p, username, fault) ==
    LET c == NewCall("getUserViews", [username |-> username])
        user == GetUserSession(username, fault)
    IN /\ Idle(p)
       /\ ncalls' = ncalls + 1
       /\ IF user = Null THEN ReturnValue(p, c, Null, fault)
          ELSE IF user[1].rooms = <<>> THEN ReturnValue(p, c, Some(<<>>), FALSE)
          ELSE Goto(p, [pc |-> "views_getRoom", op |-> c.op, args |-> c.args,
                        over |-> c.over,
                        queue |-> user[1].rooms, viewers |-> <<>>,
                        skipped |-> {}])
       /\ UNCHANGED <<users, rooms, nkeys>>

\* Faulty variant of ViewsGetRoom: a room that does not load ends the call
\* with null.
ViewsGetRoomAbort(p, fault) ==
    LET c == calls[p]
        roomname == Head(c.queue)
        room == GetRoom(roomname, fault)
        d == [c EXCEPT !.queue = Tail(@),
                       !.viewers = IF room = Null THEN @
                                   ELSE SetAddAll(@, room[1].members),
                       !.skipped = IF room = Null THEN @ \cup {roomname} ELSE @]
    IN /\ c.pc = "views_getRoom"
       /\ IF room = Null THEN ReturnValue(p, d, Null, fault)
          ELSE IF d.queue = <<>> THEN ReturnValue(p, d, Some(d.viewers), fault)
          ELSE Goto(p, d)
       /\ UNCHANGED <<users, rooms, ncalls, nkeys>>

\* Lines 188-195: one turn of the loop: the read of the next room, whose
\* members join the viewers unless it did not load; after the last room the
\* viewers are returned.
ViewsGetRoom(p, fault) ==
    LET c == calls[p]
        roomname == Head(c.queue)
        room == GetRoom(roomname, fault)
        d == [c EXCEPT !.queue = Tail(@),
                       !.viewers = IF room = Null THEN @
                                   ELSE SetAddAll(@, room[1].members),
                       !.skipped = IF room = Null THEN @ \cup {roomname} ELSE @]
    IN /\ c.pc = "views_getRoom"
       /\ IF d.queue = <<>> THEN ReturnValue(p, d, Some(d.viewers), fault)
          ELSE Goto(p, d)
       /\ UNCHANGED <<users, rooms, ncalls, nkeys>>

\* ------------------------------------------------------------ specifications
\* The values callers pass, and the salts bcrypt draws.
AllInputs ==
    [usernames |-> Usernames, names |-> RoomNames, passwords |-> Passwords,
     colors |-> Colors, descriptions |-> Descriptions, salts |-> Salts,
     publicKeys |-> UserKeys]

\* The lowest free slot takes the next call.
FirstFree(p) == Idle(p) /\ \A q \in Procs : q < p => ~Idle(q)

\* A caller starts a call, with arguments out of in.
Begin(p, in) ==
    /\ ncalls < MaxCalls
    /\ FirstFree(p)
    /\ \E fault \in BOOLEAN :
          \/ \E u \in in.usernames, pw \in in.passwords, col \in in.colors :
                CreateUserLookup(p, u, pw, col, fault)
          \/ \E n \in in.names, d \in in.descriptions :
                CreateRoomExists(p, n, d, fault)
          \/ \E u \in in.usernames, n \in in.names : AddGetUser(p, u, n, fault)
          \/ \E u \in in.usernames, n \in in.names : RemoveGetUser(p, u, n, fault)

\* The call in slot p takes its next step.
Continue(p, in) ==
    \E fault \in BOOLEAN :
       \/ \E salt \in in.salts : CreateUserInsert(p, salt, fault)
       \/ CreateRoomGenerateKey(p, fault)
       \/ CreateRoomInsert(p, fault)
       \/ AddGetRoom(p, fault)
       \/ AddTrxUsers(p, fault)
       \/ AddTrxRooms(p, fault)
       \/ AddCommit(p, fault)
       \/ RemoveGetRoom(p, fault)
       \/ RemoveTrxUsers(p, fault)
       \/ RemoveTrxRooms(p, fault)
       \/ RemoveCommit(p, fault)

\* Calls overlap freely.
Concurrent(in) == \E p \in Procs : Begin(p, in) \/ Continue(p, in)
\* Calls run one at a time: a call starts when none is in flight.
Sequential(in) == \E p \in Procs : (AllIdle /\ Begin(p, in)) \/ Continue(p, in)

Next == Concurrent(AllInputs)
Spec == Init /\ [][Next]_vars

\* Membership: two users, rooms in any letter case, one profile per user.
MemberInputs ==
    [AllInputs EXCEPT !.passwords = {"pw1"}, !.colors = {"red"},
                      !.descriptions = {Null}, !.salts = {"s1"}]
\* Room names in their stored lowercase form only.
LowerInputs == [MemberInputs EXCEPT !.names = LowerNames]

SeqNext == Sequential(MemberInputs)
SeqSpec == Init /\ [][SeqNext]_vars

SeqLowerNext == Sequential(LowerInputs)
SeqLowerSpec == Init /\ [][SeqLowerNext]_vars

LowerNext == Concurrent(LowerInputs)
LowerSpec == Init /\ [][LowerNext]_vars

\* Room records: one user, one room under both spellings, every description.
RoomInputs ==
    [MemberInputs EXCEPT !.usernames = {"u1"}, !.names = {"r1", "R1"},
                         !.descriptions = Descriptions]
RoomNext == Concurrent(RoomInputs)
RoomSpec == Init /\ [][RoomNext]_vars
SeqRoomNext == Sequential(RoomInputs)
SeqRoomSpec == Init /\ [][SeqRoomNext]_vars

\* User records: one user and one room, every password, color and salt.
UserInputs ==
    [AllInputs EXCEPT !.usernames = {"u1"}, !.names = {"r1"},
                      !.descriptions = {Null}]
SeqUserNext == Sequential(UserInputs)
SeqUserSpec == Init /\ [][SeqUserNext]_vars

\* Overlapping sign-ups of one user, with every password and color.
SignUpInputs == [UserInputs EXCEPT !.salts = {"s1"}]
UserNext == Concurrent(SignUpInputs)
UserSpec == Init /\ [][UserNext]_vars

\* ----------------------------------------- specifications of every function
\* A caller starts a call of a function that updates one row of users.
BeginUpdate(p, in) ==
    /\ ncalls < MaxCalls
    /\ FirstFree(p)
    /\ \E fault \in BOOLEAN :
          \/ \E u \in in.usernames, col \in in.colors :
                UpdateUserProfile(p, u, col, fault)
          \/ \E u \in in.usernames, online \in BOOLEAN :
                SetUserStatus(p, u, online, fault)
          \/ \E u \in in.usernames, k \in in.publicKeys :
                SetUserPublicKey(p, u, k, fault)

\* A caller starts a call of a function that reads.
BeginRead(p, in) ==
    /\ ncalls < MaxCalls
    /\ FirstFree(p)
    /\ \E fault \in BOOLEAN :
          \/ \E u \in in.usernames : GetUserSessionCall(p, u, fault)
          \/ \E u \in in.usernames, pw \in in.passwords :
                CompareUserProfile(p, u, pw, fault)
          \/ \E u \in in.usernames : GetUserPublicKey(p, u, fault)
          \/ \E n \in in.names : ExistsRoomCall(p, n, fault)
          \/ \E n \in in.names : GetRoomCall(p, n, fault)
          \/ \E u \in in.usernames : ViewsGetUser(p, u, fault)

\* A caller starts a call of any exported function.
BeginAny(p, in) == Begin(p, in) \/ BeginUpdate(p, in) \/ BeginRead(p, in)

ContinueAny(p, in) ==
    \/ Continue(p, in)
    \/ \E fault \in BOOLEAN : ViewsGetRoom(p, fault)

ConcurrentAny(in) == \E p \in Procs : BeginAny(p, in) \/ ContinueAny(p, in)
SequentialAny(in) ==
    \E p \in Procs : (AllIdle /\ BeginAny(p, in)) \/ ContinueAny(p, in)

\* One user, one room under both spellings, every password.
AnyInputs ==
    [AllInputs EXCEPT !.usernames = {"u1"}, !.names = {"r1", "R1"},
                      !.colors = {"red"},
                      !.descriptions = {Null}, !.salts = {"s1"}]
SeqAnyNext == SequentialAny(AnyInputs)
SeqAnySpec == Init /\ [][SeqAnyNext]_vars

\* Overlapping calls of every function on one user and one room.
OverlapInputs == [AnyInputs EXCEPT !.names = {"r1"}, !.passwords = {"pw1"}]
AnyNext == ConcurrentAny(OverlapInputs)
AnySpec == Init /\ [][AnyNext]_vars

\* Overlapping calls of the functions that write, on two users and one room.
WriteInputs ==
    [OverlapInputs EXCEPT !.usernames = Usernames]
WriteNext ==
    \E p \in Procs :
       Begin(p, WriteInputs) \/ BeginUpdate(p, WriteInputs) \/ Continue(p, WriteInputs)
WriteSpec == Init /\ [][WriteNext]_vars

\* ------------------------------------------------------------------ claims
\* The membership sets as a reader gets them.
RoomsIn(row) == IF row = NoRow THEN {} ELSE Elements(NewSet(JsonParse(row.rooms)))
MembersIn(row) == IF row = NoRow THEN {} ELSE Elements(NewSet(JsonParse(row.members)))
RoomsOf(u) == RoomsIn(users[u])
MembersOf(n) == MembersIn(rooms[n])

Symmetric ==
    \A u \in Usernames, n \in RoomNames : n \in RoomsOf(u) <=> u \in MembersOf(n)

MemberOps == {"addUserToRoom", "removeUserFromRoom"}
\* A call completes in this step; last' is that call.
Completed ==
    \/ \E p \in Procs : ~Idle(p) /\ Idle(p)'
    \/ ncalls' # ncalls /\ \A p \in Procs : Idle(p) => Idle(p)'

\* No step of this specification meets a storage fault: a fault shows in the
\* record of the call it ends or, in getUserViews, in the rooms skipped.
NoFault ==
    /\ Completed => last'.fault = "none"
    /\ \A p \in Procs :
          (~Idle(p)' /\ calls'[p].op = "getUserViews") => calls'[p].skipped = {}
QuietNext == SeqAnyNext /\ NoFault
QuietSpec == Init /\ [][QuietNext]_vars

\* C1: with calls running one at a time and room names passed in lowercase,
\* after every completed call a room is in a user's rooms exactly when the user
\* is in the room's members.
C1_SymmetrySequential == AllIdle => Symmetric

\* Two users have joined one room, and both sides agree.
C1_Witness ==
    /\ AllIdle
    /\ last.op = "addUserToRoom" /\ last.res = "true"
    /\ \E n \in RoomNames : MembersOf(n) = Usernames
    /\ \A u \in Usernames : RoomsOf(u) # {}

\* C2: when overlapping join/leave calls have all completed, a room is in a
\* user's rooms exactly when the user is in the room's members.
C2_SymmetryConcurrent ==
    (\A p \in Procs : calls[p].pc = "idle") =>
        \A n \in RoomNames : \A u \in Usernames :
            (u \in MembersOf(n)) = (n \in RoomsOf(u))

\* C3: when a join that returns true overlapped the join that completed last
\* and returned true, the room they share holds both users, and the user they
\* share holds both rooms.
C3_NoLostUpdate ==
    [][\A q \in Procs :
          ( /\ calls[q].pc = "Add_commit" /\ calls[q].over
            /\ Idle(q)' /\ last'.res = "true"
            /\ last.op = "addUserToRoom" /\ last.res = "true" )
          => /\ last.args.roomname = last'.args.roomname
                => {last.args.username, last'.args.username}
                      \subseteq MembersOf(last.args.roomname)'
             /\ last.args.username = last'.args.username
                => {last.args.roomname, last'.args.roomname}
                      \subseteq RoomsOf(last.args.username)']_vars

\* C4: a join that returned true put the user into the members of the room
\* stored under the lowercased name and that name into the user's rooms; a leave
\* that returned true took both out.
C4_CaseInsensitive ==
    LET u == last.args.username
        n == ToLowerCase(last.args.roomname)
    IN /\ (last.op = "addUserToRoom" /\ last.res = "true")
            => (u \in MembersOf(n) /\ n \in RoomsOf(u))
       /\ (last.op = "removeUserFromRoom" /\ last.res = "true")
            => (u \notin MembersOf(n) /\ n \notin RoomsOf(u))

\* C5: a step of a join or leave call changes the tables only when it is the
\* commit that returns true; a step that faults inside the transaction returns
\* false, so what the call wrote before the fault is in neither table.
C5_AtomicUnderFailure ==
    [][\A p \in Procs :
          (~Idle(p) /\ calls[p].op \in MemberOps /\ calls'[p] # calls[p])
          => \/ /\ calls[p].pc \in {"Add_commit", "Remove_commit"}
                /\ Idle(p)' /\ last'.res = "true" /\ last'.fault = "none"
             \/ /\ UNCHANGED <<users, rooms>>
                /\ (Idle(p)' /\ last'.fault # "none") => last'.res = "false"]_vars

\* A join faulted at its second update although its first update would have
\* changed the user's row.
C5_Witness ==
    /\ last.op = "addUserToRoom"
    /\ last.fault = "Add_trxRooms" /\ last.res = "false"
    /\ users[last.args.username] # NoRow
    /\ last.args.roomname \notin RoomsOf(last.args.username)

\* The user or the room of a join/leave call is missing.
Absent(args) ==
    \/ users[args.username] = NoRow
    \/ rooms[ToLowerCase(args.roomname)] = NoRow

\* C6: a join or leave whose user or room does not exist returns false, and no
\* step of it changes a row of either table.
C6_AbsentNoMutation ==
    [][/\ (Completed /\ last'.op \in MemberOps /\ Absent(last'.args))
            => (last'.res = "false" /\ UNCHANGED <<users, rooms>>)
       /\ \A p \in Procs :
            ( /\ ~Idle(p) /\ calls[p].op \in MemberOps
              /\ calls'[p] # calls[p] /\ Absent(calls[p].args) )
            => UNCHANGED <<users, rooms>>]_vars

\* A join of an existing user to a missing room returned false without a fault,
\* with another room on record.
C6_Witness ==
    /\ last.op = "addUserToRoom" /\ last.res = "false" /\ last.fault = "none"
    /\ users[last.args.username] # NoRow
    /\ rooms[ToLowerCase(last.args.roomname)] = NoRow
    /\ \E n \in RoomNames : rooms[n] # NoRow

\* C7: with calls running one at a time, createRoom for a name whose room is
\* on record, in any letter case and with any description, returns false and
\* leaves the row as it is; no step ever changes the keys, name or description
\* of a room on record.
C7_KeyImmutableSequential ==
    [][/\ (Completed /\ last'.op = "createRoom"
             /\ rooms[ToLowerCase(last'.args.roomname)] # NoRow)
            => (last'.res = "false" /\ UNCHANGED rooms)
       /\ \A n \in RoomNames :
            rooms[n] # NoRow
            => /\ rooms'[n] # NoRow
               /\ rooms'[n].publicKey = rooms[n].publicKey
               /\ rooms'[n].privateKey = rooms[n].privateKey
               /\ rooms'[n].description = rooms[n].description]_vars

\* createRoom under the other spelling and with another description returned
\* false for a room that has a member.
C7_Witness ==
    /\ last.op = "createRoom" /\ last.res = "false" /\ last.fault = "none"
    /\ last.args.roomname = "R1"
    /\ rooms["r1"] # NoRow
    /\ rooms["r1"].description # last.args.description
    /\ MembersOf("r1") # {}

\* C8: with createRoom calls overlapping, no createRoom returns true for a room
\* already on record, and no step replaces the keys of a room on record.
C8_ConcurrentCreateRoom ==
    [][\A n \in RoomNames :
          rooms[n] # NoRow
          => /\ rooms'[n].publicKey = rooms[n].publicKey
             /\ rooms'[n].privateKey = rooms[n].privateKey
             /\ ~( /\ Completed /\ last'.op = "createRoom"
                   /\ ToLowerCase(last'.args.roomname) = n
                   /\ last'.res = "true" )]_vars

\* C9: with calls running one at a time, createUser on a username on record
\* never returns true, returns false unless its lookup faults, and leaves the
\* users table as it is; on an absent username it returns true unless a query
\* faults, and the new row has no rooms, is offline, and carries the hash of
\* the password and the color of the call.
C9_NoDuplicateUsers ==
    [][(Completed /\ last'.op = "createUserProfile")
          => LET a == last'.args
             IN IF users[a.username] # NoRow
                THEN /\ UNCHANGED users
                     /\ last'.res # "true"
                     /\ last'.fault = "none" => last'.res = "false"
                ELSE last'.fault = "none"
                     => /\ last'.res = "true"
                        /\ users'[a.username] # NoRow
                        /\ RoomsIn(users'[a.username]) = {}
                        /\ users'[a.username].online = 0
                        /\ users'[a.username].color = a.color
                        /\ BcryptCompare(a.password, users'[a.username].password)]_vars

\* createUser with another password and another color returned false for a
\* user on record.
C9_Witness ==
    /\ last.op = "createUserProfile" /\ last.res = "false" /\ last.fault = "none"
    /\ users[last.args.username] # NoRow
    /\ users[last.args.username].color # last.args.color
    /\ ~BcryptCompare(last.args.password, users[last.args.username].password)

\* C10: with calls running one at a time, a join or leave that follows the same
\* call, which returned true, leaves both tables as they are and returns true
\* unless a query of it faults.
C10_Idempotent ==
    [][( /\ Completed /\ last'.op \in MemberOps
         /\ last.op = last'.op /\ last.args = last'.args /\ last.res = "true" )
          => /\ UNCHANGED <<users, rooms>>
             /\ last'.fault = "none" => last'.res = "true"]_vars

\* A join was run twice in a row and its edge is on both sides.
C10_Witness ==
    /\ last.op = "addUserToRoom" /\ last.again /\ last.res = "true"
    /\ last.args.roomname \in RoomsOf(last.args.username)
    /\ last.args.username \in MembersOf(last.args.roomname)

\* C11: createRoom settles with true or false, never by raising, and a
\* createRoom that returns false changed no room.
C11_CreateRoomBoolean ==
    [][(Completed /\ last'.op = "createRoom")
          => /\ last'.res \in {"true", "false"}
             /\ last'.res = "false" => UNCHANGED rooms]_vars

\* C19: with sign-ups overlapping, a createUser that returns true found no row
\* of that username and left a row with the hash of its password and its color;
\* any other step of a createUser leaves the users table as it is.
C19_ConcurrentSignUp ==
    [][/\ (Completed /\ last'.op = "createUserProfile" /\ last'.res = "true")
            => LET a == last'.args
               IN /\ users[a.username] = NoRow
                  /\ users'[a.username] # NoRow
                  /\ users'[a.username].color = a.color
                  /\ BcryptCompare(a.password, users'[a.username].password)
       /\ \A p \in Procs :
            ( /\ ~Idle(p) /\ calls[p].op = "createUserProfile"
              /\ calls'[p].pc # calls[p].pc
              /\ ~(Idle(p)' /\ last'.res = "true") )
            => UNCHANGED users]_vars

\* A createUser lost the race: its lookup found no row, its insert was rejected
\* without a storage fault, and the row on record carries another password and
\* another color than its own.
C19_Witness ==
    /\ last.op = "createUserProfile" /\ last.res = "null" /\ last.fault = "none"
    /\ users[last.args.username] # NoRow
    /\ users[last.args.username].color # last.args.color
    /\ ~BcryptCompare(last.args.password, users[last.args.username].password)

\* C20: every name in a user's rooms is the stored name of a room on record,
\* and every username in a room's members is a user on record.
C20_NoDanglingEdge ==
    /\ \A u \in Usernames : \A n \in RoomsOf(u) :
          rooms[n] # NoRow /\ rooms[n].name = n
    /\ \A n \in RoomNames : \A u \in MembersOf(n) : users[u] # NoRow


\* C12: a lookup fault makes existsRoom answer true, whether or not the room
\* exists, and a createRoom whose existence check met the fault answers false
\* having generated no key pair and written no room.
C12_FailClosed ==
    [][Completed =>
         /\ (last'.op = "existsRoom" /\ last'.fault # "none") => last'.res = "true"
         /\ (last'.op = "createRoom" /\ last'.fault = "start")
               => /\ last'.res = "false"
                  /\ UNCHANGED <<rooms, nkeys>>]_vars

\* A createRoom of a room that does not exist has answered false because its
\* existence check met a fault.
C12_Witness ==
    /\ last.op = "createRoom"
    /\ last.fault = "start"
    /\ last.res = "false"
    /\ rooms[ToLowerCase(last.args.roomname)] = NoRow
    /\ nkeys = 0

\* A step of a getUserViews call.
ViewsStep ==
    \/ \E p \in Procs : ~Idle(p)' /\ calls'[p].op = "getUserViews"
    \/ Completed /\ last'.op = "getUserViews"

\* The result is a Set of exactly the members of the rooms named in the rooms
\* of user u, the rooms in skipped left out.
ObserverUnion(res, val, skipped, u) ==
    /\ res = "value"
    /\ Elements(val[1]) =
          UNION {MembersOf(ToLowerCase(n)) : n \in RoomsOf(u) \ skipped}

C14_ObservesSelf ==
    [][(/\ Completed
        /\ last'.op = "getUserViews"
        /\ users[last'.args.username] # NoRow
        /\ RoomsOf(last'.args.username) # {})
          => /\ last'.res = "value"
             /\ last'.args.username \in Elements(last'.val[1])]_vars

\* The step is the commit of a join or of a leave.
MemberCommit ==
    \E p \in Procs : /\ calls[p].pc \in {"Add_commit", "Remove_commit"}
                     /\ calls'[p].pc # calls[p].pc

\* C15: the rooms column of an existing user and the members column of an
\* existing room change in no step but the commit of a join or leave, whatever
\* calls of the other functions run or overlap meanwhile.
C15_OnlyJoinLeaveWriteMembership ==
    [][(\/ \E u \in Usernames :
              users[u] # NoRow /\ (users'[u] = NoRow \/ users'[u].rooms # users[u].rooms)
        \/ \E n \in RoomNames :
              rooms[n] # NoRow /\ (rooms'[n] = NoRow \/ rooms'[n].members # rooms[n].members))
          => MemberCommit]_vars

\* A createRoom that raced with another has written a room that already had a
\* member.
C15_Witness ==
    /\ last.op = "createRoom"
    /\ last.res = "true"
    /\ MembersOf(ToLowerCase(last.args.roomname)) # {}

\* No two room records have names equal ignoring case: a record is kept under
\* its lowercased name only.
NoCaseTwins ==
    \A n \in RoomNames : rooms[n] # NoRow => n = ToLowerCase(n) /\ rooms[n].name = n

\* The value val is the record row of the rooms table.
IsRecord(val, row) ==
    /\ val # Null
    /\ val[1].name = row.name
    /\ val[1].description = row.description
    /\ val[1].publicKey = row.publicKey
    /\ val[1].privateKey = row.privateKey
    /\ Elements(val[1].members) = MembersIn(row)

\* Room-name normalisation in one step.  A createRoom returns true only by
\* writing, under the lowercased name, a record of its description and of the
\* key pair it generated; that record keeps name, description and keys from
\* then on; for a name that names it ignoring case existsRoom answers true,
\* createRoom answers false and getRoom returns it (faultFree: unless the
\* read of getRoom meets a storage fault).
Normalised(faultFree) ==
    /\ NoCaseTwins'
    /\ (Completed /\ last'.op = "createRoom" /\ last'.res = "true")
          => LET name == ToLowerCase(last'.args.roomname)
             IN /\ rooms[name] = NoRow
                /\ rooms'[name] =
                      [name |-> name,
                       description |-> last'.args.description,
                       members |-> JsonStringify(<<>>),
                       publicKey |-> GenerateKey(last'.args.roomname, nkeys).publicKey,
                       privateKey |-> GenerateKey(last'.args.roomname, nkeys).privateKey]
    /\ \A n \in RoomNames :
          rooms[n] # NoRow
             => /\ rooms'[n] # NoRow
                /\ rooms'[n].name = rooms[n].name
                /\ rooms'[n].description = rooms[n].description
                /\ rooms'[n].publicKey = rooms[n].publicKey
                /\ rooms'[n].privateKey = rooms[n].privateKey
    /\ (/\ Completed
        /\ last'.op \in {"existsRoom", "createRoom", "getRoom"}
        /\ rooms[ToLowerCase(last'.args.roomname)] # NoRow)
          => /\ last'.op = "existsRoom" => last'.res = "true"
             /\ last'.op = "createRoom" => last'.res = "false"
             /\ (last'.op = "getRoom" /\ (faultFree => last'.fault = "none"))
                   => IsRecord(last'.val, rooms[ToLowerCase(last'.args.roomname)])

\* C16 as stated: for names equal ignoring case, once createRoom(N1) returned
\* true, roomExists(N2) is true, getRoom(N2) returns the record createRoom(N1)
\* created and createRoom(N2) is false; no two records have names equal
\* ignoring case.
C16_NormalisationAsStated == [][Normalised(FALSE)]_vars

\* C16 amended: the same, getRoom(N2) returning the record unless its read
\* meets a storage fault.
C16_Normalisation == [][Normalised(TRUE)]_vars

\* getRoom has returned the record of a room for a name spelled otherwise than
\* the record's name.
C16_Witness ==
    /\ last.op = "getRoom"
    /\ last.res = "value"
    /\ last.val[1].name # last.args.roomname

\* C17: a createUser that returns true stores a hash that verifies its password
\* and no other; no step changes the hash of an existing user; and
\* verifyPassword(u, p) is true exactly when it met no storage fault, u exists
\* and p verifies against the stored hash, so it is false for an absent user
\* and on a fault.
C17_PasswordVerification ==
    [][/\ (Completed /\ last'.op = "createUserProfile" /\ last'.res = "true")
             => \A pw \in Passwords :
                   BcryptCompare(pw, users'[last'.args.username].password)
                      <=> pw = last'.args.password
       /\ \A u \in Usernames :
             users[u] # NoRow
                => users'[u] # NoRow /\ users'[u].password = users[u].password
       /\ (Completed /\ last'.op = "compareUserProfile")
             => LET a == last'.args
                IN /\ last'.res \in {"true", "false"}
                   /\ last'.res = "true"
                         <=> /\ last'.fault = "none"
                             /\ users[a.username] # NoRow
                             /\ BcryptCompare(a.password, users[a.username].password)]_vars

\* verifyPassword has answered true for a user whose public key has been set
\* since sign-up.
C17_Witness ==
    /\ last.op = "compareUserProfile"
    /\ last.res = "true"
    /\ users[last.args.username].publicKey # Null

\* Row new is row old but for the column col.
SameBut(old, new, col) ==
    IF old = NoRow THEN new = NoRow
    ELSE new # NoRow /\ \A k \in DOMAIN old : k # col => new[k] = old[k]

\* C18: a step of a join(u, r) or leave(u, r) changes nothing of the tables
\* but the rooms column of u's row and the members column of r's row, so it
\* leaves what an updateProfile, setOnlineStatus or setUserPublicKey on u wrote
\* since the call read u.
C18_MembershipColumnsOnly ==
    [][/\ \A p \in Procs :
             ( /\ ~Idle(p) /\ calls[p].op \in MemberOps
               /\ calls'[p].pc # calls[p].pc )
             => LET a == calls[p].args
                IN /\ \A u \in Usernames :
                         IF u = a.username THEN SameBut(users[u], users'[u], "rooms")
                         ELSE users'[u] = users[u]
                   /\ \A n \in RoomNames :
                         IF n = ToLowerCase(a.roomname)
                         THEN SameBut(rooms[n], rooms'[n], "members")
                         ELSE rooms'[n] = rooms[n]
       /\ (ncalls' # ncalls /\ \E p \in Procs :
              \/ ~Idle(p)' /\ calls'[p].op \in MemberOps /\ Idle(p)
              \/ Completed /\ last'.op \in MemberOps)
             => UNCHANGED <<users, rooms>>]_vars

\* A join is about to commit although the online flag of its user, while
\* another user exists, is no longer the one the join read.
C18_Witness ==
    \E p \in Procs :
       /\ calls[p].pc = "Add_commit"
       /\ calls[p].user.online # (users[calls[p].args.username].online # 0)
       /\ \E u \in Usernames : u # calls[p].args.username /\ users[u] # NoRow

=============================================================================
